---- MODULE Spec2Model ----
(***************************************************************************)
(* Model of the natural-language-to-Cypher assistant:                      *)
(*   db_connector.py  Neo4jConnection / db_conn (Graph Store Client)       *)
(*   cypher_chain.py  build_enriched_schema, graph_schema,                 *)
(*                    Neo4jLLMConnector.__init__ / ask                     *)
(*   app.py           module initialisation and the POST /ask handler      *)
(*                                                                         *)
(* The language model, the graph store and the GraphCypherQAChain are      *)
(* external: every outcome their interface allows is a nondeterministic    *)
(* choice (the model call raises or yields a query, non-query text or an   *)
(* empty text; the store raises or returns rows; the response mapping has  *)
(* or lacks the keys that ask reads).                                      *)
(***************************************************************************)
EXTENDS Integers, Sequences, FiniteSets, TLC

VARIABLES
    phase,          \* position of module loading / process life cycle
    driver,         \* db_conn.driver: "unset" | "ok" | "None"
    introLog,       \* outcomes of the db_conn.run_query calls made so far
    graph_schema,   \* cypher_chain.graph_schema, NoSchema before it is built
    connector,      \* app.connector: "unset" | "ok" | "None"
    chainSchema,    \* the schema text held by connector.graph / the chain
    req,            \* per /ask request: handler and ask() state
    rqpc,           \* per caller of run_query: position inside run_query
    rqSession,      \* per caller: the session its current call opened (0: none)
    rqLast,         \* per caller: the session its last finished call had opened
    rqOutcome,      \* per caller: how its last call ended
    rqCalls,        \* per caller: number of calls started
    openSessions,   \* sessions opened on the driver and not yet closed
    sessionCount    \* number of sessions the driver has handed out

startVars == <<phase, driver, introLog, graph_schema, connector, chainSchema>>
rqVars    == <<rqpc, rqSession, rqLast, rqOutcome, rqCalls, openSessions, sessionCount>>
vars      == <<phase, driver, introLog, graph_schema, connector, chainSchema, req,
               rqpc, rqSession, rqLast, rqOutcome, rqCalls, openSessions, sessionCount>>

(* ------------------------------ bounds --------------------------------- *)
NReq     == 2      \* number of /ask requests in flight over the process life
NCallers == 2      \* concurrent callers of db_conn.run_query
MaxCalls == 2      \* run_query calls per caller

Requests == 1..NReq
Callers  == 1..NCallers

(* --------------------------- program texts ----------------------------- *)
Sentinel        == "An error occurred"
QueryNotGen     == "Query not generated."
NoAnswer        == "Could not find an answer."
NotInitialized  == "The application is not initialized correctly. Check the server logs."
NoQuestion      == "No question provided"
InternalError   == "An internal error occurred while processing the question."

\* the three (label, property) pairs whose distinct values are fetched, in
\* the order build_enriched_schema fetches them
IntrospectionTargets ==
    << <<"MaintenanceWorkOrder", "order_status">>,
       <<"MaintenanceWorkOrder", "maintenance_type">>,
       <<"MachineFault", "fault_category">> >>

\* value lists the store may hold for one categorical property
DistinctValueLists == { <<>>, <<"v1">> }

(* ------------------------- Graph Store Client -------------------------- *)
\* Neo4jConnection.__init__: GraphDatabase.driver either returns a driver or
\* raises; the except clause stores None and does not re-raise.
DriverAfterInit(created) == IF created THEN "ok" ELSE "None"

\* Neo4jConnection.run_query as seen by a sequential caller: the possible
\* outcomes of one call.  Without a driver the call returns [] and runs
\* nothing; with one, session.run either yields the records or raises.
RunQueryOutcomes(drv) ==
    IF drv # "ok"
    THEN { [executed |-> FALSE, raised |-> FALSE, rows |-> <<>>] }
    ELSE { [executed |-> TRUE, raised |-> FALSE, rows |-> v] : v \in DistinctValueLists }
         \cup { [executed |-> FALSE, raised |-> TRUE, rows |-> <<>>] }

(* --------------------------- Schema builder ---------------------------- *)
\* the f-string of build_enriched_schema: the static text with the three
\* fetched lists embedded at their places
SchemaText(order_status_values, maintenance_type_values, fault_category_values) ==
    [ maintenance_type |-> maintenance_type_values,
      order_status     |-> order_status_values,
      fault_category   |-> fault_category_values ]


\* the value of a schema variable that has not been assigned yet
NoSchema == SchemaText(<<"unset">>, <<"unset">>, <<"unset">>)

(* ------------------------------ start-up ------------------------------- *)
NoResponse == [steps |-> "none", query |-> "none", hasResult |-> FALSE, result |-> "none"]
NoReturn   == [kind |-> "none", query |-> "none", answer |-> "none"]
NoReply    == [kind |-> "none", status |-> 0, error |-> "none",
               cypher_query |-> "none", final_answer |-> "none"]

NewRequest ==
    [ hstate     |-> "waiting",    \* waiting | in_ask | answered
      body       |-> "none",       \* what the POST carried
      astate     |-> "Idle",       \* state of the ask() call of this request
      failedFrom |-> "none",       \* the state Failed was entered from
      genText    |-> "none",       \* what the generation step yielded
      exc        |-> "none",       \* message of the exception chain.invoke raised
      llmCalls   |-> 0,            \* model calls made for this request
      storeCalls |-> 0,            \* store executions made for this request
      askCalls   |-> 0,            \* connector.ask calls made by the handler
      usedSchema |-> NoSchema,      \* schema text put into the generation prompt
      response   |-> NoResponse,   \* the mapping chain.invoke returned
      ret        |-> NoReturn,     \* what ask() handed to the handler
      resp       |-> NoReply ]     \* what the HTTP client received

Init ==
    /\ phase = "load_db"
    /\ driver = "unset"
    /\ introLog = <<>>
    /\ graph_schema = NoSchema
    /\ connector = "unset"
    /\ chainSchema = NoSchema
    /\ req = [r \in Requests |-> NewRequest]
    /\ rqpc = [t \in Callers |-> "idle"]
    /\ rqSession = [t \in Callers |-> 0]
    /\ rqLast = [t \in Callers |-> 0]
    /\ rqOutcome = [t \in Callers |-> "none"]
    /\ rqCalls = [t \in Callers |-> 0]
    /\ openSessions = {}
    /\ sessionCount = 0

\* import db_connector: db_conn = Neo4jConnection(...) at module level
LoadDbConnector ==
    /\ phase = "load_db"
    /\ \E created \in BOOLEAN : driver' = DriverAfterInit(created)
    /\ phase' = "build_schema"
    /\ UNCHANGED <<introLog, graph_schema, connector, chainSchema, req>>
    /\ UNCHANGED rqVars

\* where module loading stands after one get_distinct_values call: a raising
\* run_query is caught nowhere in build_enriched_schema, in cypher_chain or
\* around app.py's import, so it ends the import of app
PhaseAfterIntrospection(outcome, nDone) ==
    IF outcome.raised THEN "aborted"
    ELSE IF nDone = Len(IntrospectionTargets) THEN "init_connector"
    ELSE "build_schema"

\* graph_schema = build_enriched_schema(): one get_distinct_values call per
\* step; the last one is followed by the formatting of the schema text
GetDistinctValues ==
    /\ phase = "build_schema"
    /\ Len(introLog) < Len(IntrospectionTargets)
    /\ \E o \in RunQueryOutcomes(driver) :
         LET log == Append(introLog, o) IN
         /\ introLog' = log
         /\ phase' = PhaseAfterIntrospection(o, Len(log))
         /\ graph_schema' =
              IF ~o.raised /\ Len(log) = Len(IntrospectionTargets)
              THEN SchemaText(log[1].rows, log[2].rows, log[3].rows)
              ELSE graph_schema
    /\ UNCHANGED <<driver, connector, chainSchema, req>>
    /\ UNCHANGED rqVars

\* app.py: try: connector = Neo4jLLMConnector() except Exception: connector = None
ConnectorAfterInit(graphOK, llmOK) == IF graphOK /\ llmOK THEN "ok" ELSE "None"

\* self.graph.schema = graph_schema: the chain is built on the module's
\* schema text
ChainSchemaUnassigned(schema) == NoSchema
ChainSchemaAfterInit(schema) == schema

\* Neo4jLLMConnector.__init__ under app.py's try/except.  Neo4jGraph is given
\* the same NEO4J_URI and credentials as db_conn, so it can only be built
\* when the driver could be created; ChatOpenAI may fail on its own.
InitConnector ==
    /\ phase = "init_connector"
    /\ \E graphOK \in (IF driver = "ok" THEN BOOLEAN ELSE {FALSE}), llmOK \in BOOLEAN :
         /\ connector' = ConnectorAfterInit(graphOK, llmOK)
         /\ chainSchema' = IF connector' = "ok" THEN ChainSchemaAfterInit(graph_schema)
                                               ELSE NoSchema
    /\ phase' = "serving"
    /\ UNCHANGED <<driver, introLog, graph_schema, req>>
    /\ UNCHANGED rqVars


(* ------------------------ Neo4jLLMConnector.ask ------------------------ *)
\* what the POST may carry
Bodies == {"no_json", "non_object", "no_question", "empty_question", "question"}

\* what the generation step may yield when the model call does not raise:
\* a Cypher query, text that is no query, or an empty text
GenTexts == {"cypher", "prose", "empty"}

\* shapes of response["intermediate_steps"] that ask distinguishes: key
\* absent (read as [{}], a first element without "query"), an empty list,
\* a first element with "query"
StepShapes == {"absent", "empty", "query"}

\* except Exception as e: return "An error occurred", str(e)
\* (graph_chain.py's ask has the same try block and the same except clause)
AskExceptReraise(e) == [kind |-> "raise", query |-> "none", answer |-> e]
AskExceptNoMessage(e) == [kind |-> "pair", query |-> Sentinel, answer |-> Sentinel]
AskExcept(e) == [kind |-> "pair", query |-> Sentinel, answer |-> e]

\* result.get("intermediate_steps", [{}])[0] raises IndexError on an empty
\* list; nothing else in the two extraction lines raises on a mapping
ExtractRaises(response) == response.steps = "empty"

\* the body of the try block after chain.invoke returned: the two
\* extraction lines and the return of the pair
ExtractPair(response) ==
    IF ExtractRaises(response)
    THEN AskExcept("list index out of range")
    ELSE [ kind   |-> "pair",
           query  |-> IF response.steps = "query" THEN response.query ELSE QueryNotGen,
           answer |-> IF response.hasResult THEN response.result ELSE NoAnswer ]

(* ----------------------------- POST /ask ------------------------------- *)
ErrorReply(code, msg) ==
    [kind |-> "error", status |-> code, error |-> msg,
     cypher_query |-> "none", final_answer |-> "none"]

\* the request left the handler through an exception nobody caught (the
\* framework answers with its own 500 page) or through an HTTP error that
\* get_json raised (the framework answers with that error's page)
FrameworkReply(code) ==
    [kind |-> "not_json", status |-> code, error |-> "none",
     cypher_query |-> "none", final_answer |-> "none"]

\* the try block around connector.ask: jsonify of the pair, or the except
\* clause when ask raised or the answer cannot be serialised
HandlerFinish(ret, serialisable) ==
    IF ret.kind = "pair" /\ serialisable
    THEN [kind |-> "pair", status |-> 200, error |-> "none",
          cypher_query |-> ret.query, final_answer |-> ret.answer]
    ELSE ErrorReply(500, InternalError)

\* rows may hold values (dates, durations) that jsonify cannot serialise;
\* the texts ask produces itself always can be
Serialisable(ret) == IF ret.answer \in {"rows", "no_rows"} THEN BOOLEAN ELSE {TRUE}

\* the question check as `if question is None`: an empty question passes
BodyOutcomesNoneOnly(body) ==
    CASE body = "no_json"        -> {FrameworkReply(415), FrameworkReply(500)}
      [] body = "non_object"     -> {FrameworkReply(500)}
      [] body = "no_question"    -> {ErrorReply(400, NoQuestion)}
      [] OTHER                   -> {NoReply}

\* request.get_json() and data.get('question') for each kind of body:
\* what the handler does before it reaches the question check.
\*   no JSON body: get_json raises an HTTP error (415/400) or, in Flask
\*     versions where it returns None, data.get raises AttributeError;
\*   JSON that is no object: data.get raises AttributeError.
\* Neither is inside the handler's try block.
BodyOutcomes(body) ==
    CASE body = "no_json"        -> {FrameworkReply(415), FrameworkReply(500)}
      [] body = "non_object"     -> {FrameworkReply(500)}
      [] body \in {"no_question", "empty_question"} -> {ErrorReply(400, NoQuestion)}
      [] OTHER                   -> {NoReply}

\* if not connector: the handler answers 500 before it reads the request
NeverUninitialised(c) == FALSE
NotInitialised(c) == c # "ok"

\* the handler up to and including its call of connector.ask
HandleAsk(r) ==
    /\ phase = "serving"
    /\ req[r].hstate = "waiting"
    /\ \E body \in Bodies :
         IF NotInitialised(connector)
         THEN req' = [req EXCEPT ![r].body = body, ![r].hstate = "answered",
                                 ![r].resp = ErrorReply(500, NotInitialized)]
         ELSE \E out \in BodyOutcomes(body) :
                IF out # NoReply
                THEN req' = [req EXCEPT ![r].body = body, ![r].hstate = "answered",
                                        ![r].resp = out]
                ELSE req' = [req EXCEPT ![r].body = body, ![r].hstate = "in_ask",
                                        ![r].askCalls = @ + 1,
                                        ![r].astate = "Generating"]
    /\ UNCHANGED startVars
    /\ UNCHANGED rqVars

\* ask() hands `ret` to the handler, which builds the reply: the records
\* request r may be in afterwards
Answered(r, ret, state, from, msg) ==
    { [req[r] EXCEPT !.astate = state, !.failedFrom = from, !.exc = msg,
                     !.ret = ret, !.hstate = "answered",
                     !.resp = HandlerFinish(ret, ser)] : ser \in Serialisable(ret) }

\* the text the generation step hands on, per kind
QueryText(kind) ==
    CASE kind = "cypher" -> "MATCH (m:Machine) RETURN count(m)"
      [] kind = "prose"  -> "I cannot answer that."
      [] OTHER           -> ""

\* the mappings chain.invoke may return once the store step is over
ChainResponses(kind, rows) ==
    { [steps |-> sh, query |-> QueryText(kind), hasResult |-> hr, result |-> rows] :
        sh \in StepShapes, hr \in BOOLEAN }

\* chain.invoke, first half: the prompt is filled with the chain's schema
\* and the model is called.  The call raises, or yields a text.
Generate(r) ==
    /\ req[r].hstate = "in_ask"
    /\ req[r].astate = "Generating"
    /\ LET called == [req[r] EXCEPT !.llmCalls = @ + 1, !.usedSchema = chainSchema] IN
       \/ \E next \in Answered(r, AskExcept("model call failed"), "Failed",
                               "Generating", "model call failed") :
            req' = [req EXCEPT ![r] = [next EXCEPT !.llmCalls = called.llmCalls,
                                                   !.usedSchema = called.usedSchema]]
       \/ \E text \in GenTexts :
            req' = [req EXCEPT ![r] = [called EXCEPT !.genText = text,
                                                     !.astate = "Executing"]]
    /\ UNCHANGED startVars
    /\ UNCHANGED rqVars

\* what the store does with a text handed to graph.query: text that is no
\* query is rejected; a query yields rows or fails on the database side
StoreOutcomes(kind) ==
    IF kind = "prose"
    THEN { [raised |-> TRUE, msg |-> "Invalid input: syntax error", rows |-> "none"] }
    ELSE { [raised |-> TRUE, msg |-> "store rejected the query", rows |-> "none"] }
         \cup { [raised |-> FALSE, msg |-> "none", rows |-> "rows"] }

\* return_direct=True: the chain hands the store's rows back as its result;
\* without it the chain would make a second model call to narrate them
ReturnDirectOff == FALSE
ReturnDirect == TRUE

\* model calls the chain makes after the store step, and its result
NarrationCalls == IF ReturnDirect THEN 0 ELSE 1
ChainResult(rows) == IF ReturnDirect THEN rows ELSE "narration"

\* chain.invoke, second half: a non-empty text goes to the store as it is
\* (neither the chain nor ask validates it); an empty text is not run and
\* counts as an empty result.  In direct mode the rows are the result.
Execute(r) ==
    /\ req[r].hstate = "in_ask"
    /\ req[r].astate = "Executing"
    /\ IF req[r].genText = "empty"
       THEN \E resp \in ChainResponses("empty", ChainResult("no_rows")) :
              req' = [req EXCEPT ![r].response = resp,
                                 ![r].llmCalls = @ + NarrationCalls,
                                 ![r].astate = "Formatting"]
       ELSE \E o \in StoreOutcomes(req[r].genText) :
              IF o.raised
              THEN \E next \in Answered(r, AskExcept(o.msg), "Failed", "Executing", o.msg) :
                     req' = [req EXCEPT ![r] = [next EXCEPT !.storeCalls = @ + 1]]
              ELSE \E resp \in ChainResponses(req[r].genText, ChainResult(o.rows)) :
                     req' = [req EXCEPT ![r].response = resp, ![r].storeCalls = @ + 1,
                                        ![r].llmCalls = @ + NarrationCalls,
                                        ![r].astate = "Formatting"]
    /\ UNCHANGED startVars
    /\ UNCHANGED rqVars

\* the rest of ask's try block: the query and the result are read from the
\* response and returned; an exception raised here reaches the same except
Format(r) ==
    /\ req[r].hstate = "in_ask"
    /\ req[r].astate = "Formatting"
    /\ LET raised == ExtractRaises(req[r].response) IN
       \E next \in Answered(r, ExtractPair(req[r].response),
                            IF raised THEN "Failed" ELSE "Done",
                            IF raised THEN "Formatting" ELSE "none",
                            IF raised THEN "list index out of range" ELSE "none") :
         req' = [req EXCEPT ![r] = next]
    /\ UNCHANGED startVars
    /\ UNCHANGED rqVars

Next ==
    \/ LoadDbConnector
    \/ GetDistinctValues
    \/ InitConnector
    \/ \E r \in Requests : HandleAsk(r)
    \/ \E r \in Requests : Generate(r)
    \/ \E r \in Requests : Execute(r)
    \/ \E r \in Requests : Format(r)

Spec == Init /\ [][Next]_vars


(* --------------- Neo4jConnection.run_query, step by step --------------- *)
(* Several threads call db_conn.run_query on the one shared connection    *)
(* object; the steps of the calls interleave freely.                      *)

\* driver.session(): every call of it creates a new session object
NewSession(count) == count + 1

\* leaving the with block (Session.__exit__) closes the session of the
\* block, on normal exit and when an exception passes through
SessionsAfterExitLeaky(open, session, raising) ==
    IF raising THEN open ELSE open \ {session}
SessionsAfterExit(open, session, raising) == open \ {session}

InitRQ ==
    /\ phase = "build_schema"
    /\ \E created \in BOOLEAN : driver = DriverAfterInit(created)
    /\ introLog = <<>>
    /\ graph_schema = NoSchema
    /\ connector = "unset"
    /\ chainSchema = NoSchema
    /\ req = [r \in Requests |-> NewRequest]
    /\ rqpc = [t \in Callers |-> "idle"]
    /\ rqSession = [t \in Callers |-> 0]
    /\ rqLast = [t \in Callers |-> 0]
    /\ rqOutcome = [t \in Callers |-> "none"]
    /\ rqCalls = [t \in Callers |-> 0]
    /\ openSessions = {}
    /\ sessionCount = 0

\* run_query is entered: without a driver it returns [] at once, with one
\* it opens a session and enters the with block
RQEnter(t) ==
    /\ rqpc[t] = "idle"
    /\ rqCalls[t] < MaxCalls
    /\ rqCalls' = [rqCalls EXCEPT ![t] = @ + 1]
    /\ IF driver # "ok"
       THEN /\ rqOutcome' = [rqOutcome EXCEPT ![t] = "empty_list"]
            /\ rqLast' = [rqLast EXCEPT ![t] = 0]
            /\ UNCHANGED <<rqpc, rqSession, openSessions, sessionCount>>
       ELSE LET s == NewSession(sessionCount) IN
            /\ sessionCount' = s
            /\ openSessions' = openSessions \cup {s}
            /\ rqSession' = [rqSession EXCEPT ![t] = s]
            /\ rqpc' = [rqpc EXCEPT ![t] = "in_session"]
            /\ rqOutcome' = [rqOutcome EXCEPT ![t] = "running"]
            /\ UNCHANGED rqLast
    /\ UNCHANGED startVars
    /\ UNCHANGED req

\* session.run(query, parameters) and the reading of the records: the
\* records are obtained, or an exception is raised inside the with block
RQRun(t) ==
    /\ rqpc[t] = "in_session"
    /\ \E raising \in BOOLEAN :
         rqOutcome' = [rqOutcome EXCEPT ![t] = IF raising THEN "raising" ELSE "got_rows"]
    /\ rqpc' = [rqpc EXCEPT ![t] = "leaving"]
    /\ UNCHANGED <<rqSession, rqLast, rqCalls, openSessions, sessionCount>>
    /\ UNCHANGED startVars
    /\ UNCHANGED req

\* the with block is left and run_query returns the list or lets the
\* exception through
RQExit(t) ==
    /\ rqpc[t] = "leaving"
    /\ openSessions' = SessionsAfterExit(openSessions, rqSession[t],
                                         rqOutcome[t] = "raising")
    /\ rqOutcome' = [rqOutcome EXCEPT ![t] = IF @ = "raising" THEN "raised" ELSE "rows"]
    /\ rqLast' = [rqLast EXCEPT ![t] = rqSession[t]]
    /\ rqSession' = [rqSession EXCEPT ![t] = 0]
    /\ rqpc' = [rqpc EXCEPT ![t] = "idle"]
    /\ UNCHANGED <<rqCalls, sessionCount>>
    /\ UNCHANGED startVars
    /\ UNCHANGED req

NextRQ ==
    \/ \E t \in Callers : RQEnter(t)
    \/ \E t \in Callers : RQRun(t)
    \/ \E t \in Callers : RQExit(t)

SpecRQ == InitRQ /\ [][NextRQ]_vars


(* ============================== claims ================================= *)

FinishedAsk(r) == req[r].astate \in {"Done", "Failed"}

\* C1: ask never raises.  Whenever an ask call has ended, whatever the
\* chain did (model call failed, store rejected the query, response without
\* or with an empty intermediate_steps list, response without result), it
\* handed a two-element (query, answer) pair to the handler.
C1_AskAlwaysReturnsPair ==
    \A r \in Requests :
      FinishedAsk(r) =>
        /\ req[r].ret.kind = "pair"
        /\ req[r].ret.query # "none"
        /\ req[r].ret.answer # "none"

\* C1 witness: an ask call whose extraction hit an empty intermediate_steps
\* list has ended and returned a pair
C1_Witness ==
    \E r \in Requests :
      /\ req[r].astate = "Failed"
      /\ req[r].failedFrom = "Formatting"
      /\ req[r].response.steps = "empty"
      /\ req[r].ret.kind = "pair"

\* C2: when the generation step yields no parseable query (text that is no
\* query, or no text), no store execution happens for that request and the
\* answer ask returns is an explanatory error.
C2_NoExecutionAfterFailedGeneration ==
    \A r \in Requests :
      req[r].genText \in {"prose", "empty"} =>
        /\ req[r].storeCalls = 0
        /\ FinishedAsk(r) => req[r].ret.answer \notin {"rows", "no_rows"}

\* C3: when the model call or the store execution raised, ask returns the
\* pair (sentinel, message of the exception) and the handler replies with
\* that pair: the exception does not reach the transport layer.
C3_FailureBecomesSentinelPair ==
    \A r \in Requests :
      (req[r].astate = "Failed" /\ req[r].failedFrom \in {"Generating", "Executing"}) =>
        /\ req[r].exc # "none"
        /\ req[r].ret = [kind |-> "pair", query |-> "An error occurred",
                         answer |-> req[r].exc]
        /\ req[r].resp.kind = "pair"
        /\ req[r].resp.cypher_query = "An error occurred"
        /\ req[r].resp.final_answer = req[r].exc

\* C3 witness: a request whose generated query the store rejected has been
\* answered
C3_Witness ==
    \E r \in Requests :
      /\ req[r].astate = "Failed"
      /\ req[r].failedFrom = "Executing"
      /\ req[r].storeCalls = 1
      /\ req[r].hstate = "answered"

\* C4: every POST to /ask is answered with a JSON object that has both
\* cypher_query and final_answer, or an error field; no request ends in an
\* exception the handler did not handle.
C4_AlwaysJsonReply ==
    \A r \in Requests :
      req[r].hstate = "answered" => req[r].resp.kind \in {"pair", "error"}

\* the transitions of the per-request state machine of section 4.4
C5Allowed(from, to) ==
    \/ from = to
    \/ <<from, to>> \in { <<"Idle", "Generating">>, <<"Generating", "Executing">>,
                          <<"Executing", "Formatting">>, <<"Formatting", "Done">>,
                          <<"Generating", "Failed">>, <<"Executing", "Failed">> }

\* C5: each request moves Idle -> Generating -> Executing -> Formatting ->
\* Done; Failed is entered only from Generating or Executing; Failed and
\* Done are terminal; Generating and Executing are never re-entered.
C5_StateMachine ==
    [][\A r \in Requests : C5Allowed(req[r].astate, req'[r].astate)]_vars

\* C6: the Graph Store Client surfaces every failure as an error: a driver
\* that cannot be created makes the creation of the connection fail, and a
\* run_query that executed nothing raised instead of returning a list.
C6_FailuresSurface ==
    /\ driver = "None" => phase = "aborted"
    /\ \A i \in 1..Len(introLog) : ~introLog[i].executed => introLog[i].raised


InCall(t) == rqpc[t] # "idle"

\* C7: under any interleaving of run_query calls on the shared db_conn,
\* every call that has a driver works on a session of its own that is open
\* while the call uses it, no session belongs to two calls, the session of
\* a call is closed when the call has returned or raised, and once no call
\* is running no session is open.
C7_OwnSessionAlwaysReleased ==
    /\ \A t \in Callers : InCall(t) => rqSession[t] \in openSessions
    /\ \A t, u \in Callers : (t # u /\ InCall(t) /\ InCall(u)) => rqSession[t] # rqSession[u]
    /\ \A t \in Callers : (~InCall(t) /\ rqLast[t] # 0) => rqLast[t] \notin openSessions
    /\ (\A t \in Callers : ~InCall(t)) => openSessions = {}

\* C7 witness: one call has raised and returned while another call is
\* inside its session
C7_Witness ==
    \E t, u \in Callers :
      /\ t # u
      /\ ~InCall(t) /\ rqOutcome[t] = "raised" /\ rqLast[t] # 0
      /\ InCall(u)

\* C8: an introspection query that raises does not abort module loading:
\* a schema description is still produced and the process goes on towards
\* serving requests.
C8_IntrospectionFailureTolerated ==
    (\E i \in 1..Len(introLog) : introLog[i].raised) => phase # "aborted"

\* C9: the schema description is built once, before the first request, and
\* is read-only afterwards: requests are served only after the build, each
\* of the three properties is introspected once, the schema text every
\* generation step uses is the one built at start-up, and no step taken
\* while serving changes the schema or runs an introspection query.
C9_SchemaBuiltOnceReadOnly ==
    /\ [](phase = "serving" =>
            /\ Len(introLog) = Len(IntrospectionTargets)
            /\ graph_schema = [ maintenance_type |-> introLog[2].rows,
                                order_status     |-> introLog[1].rows,
                                fault_category   |-> introLog[3].rows ])
    /\ [](\A r \in Requests :
            /\ req[r].hstate # "waiting" => phase = "serving"
            /\ req[r].llmCalls > 0 => req[r].usedSchema = graph_schema)
    /\ [][phase = "serving" =>
            /\ graph_schema' = graph_schema
            /\ chainSchema' = chainSchema
            /\ introLog' = introLog]_vars

\* C9 witness: two requests have gone through generation, one of them has
\* failed and one has succeeded, with a schema that holds fetched values
C9_Witness ==
    /\ graph_schema.order_status = <<"v1">>
    /\ \E r, q \in Requests :
         /\ req[r].astate = "Failed" /\ req[r].llmCalls = 1
         /\ req[q].astate = "Done" /\ req[q].llmCalls = 1

C11_SequentialSingleCalls ==
    /\ [](\A r \in Requests :
            /\ req[r].llmCalls <= 1
            /\ req[r].storeCalls <= 1
            /\ req[r].astate \in {"Idle", "Generating"} => req[r].storeCalls = 0
            /\ req[r].storeCalls = 1 =>
                 (req[r].llmCalls = 1 /\ req[r].genText \in {"cypher", "prose"})
            /\ (req[r].storeCalls = 1 /\ req[r].astate \in {"Formatting", "Done"}) =>
                 req[r].response.result = "rows"
            /\ (req[r].astate = "Done" /\ req[r].storeCalls = 1
                  /\ req[r].response.hasResult) => req[r].ret.answer = "rows")
    /\ [][\A r \in Requests :
            ~(req'[r].llmCalls # req[r].llmCalls /\ req'[r].storeCalls # req[r].storeCalls)]_vars

\* C11 witness: a request has gone through one model call, then one store
\* query, and its answer is the rows the store returned
C11_Witness ==
    \E r \in Requests :
      /\ req[r].astate = "Done"
      /\ req[r].llmCalls = 1
      /\ req[r].storeCalls = 1
      /\ req[r].ret.answer = "rows"

\* C12: the handler calls connector.ask at most once per request, and only
\* with an initialised connector and a non-empty question.  The handler's
\* checks apply in order: with connector = None every request is answered
\* with an error and status 500 and the connector stays None; otherwise a
\* JSON object without a question or with an empty one is answered with
\* 'No question provided' and status 400; neither calls the connector.
C12_AskCalledOnceWhenAllowed ==
    /\ [](\A r \in Requests :
            /\ req[r].askCalls <= 1
            /\ req[r].askCalls = 1 => (connector = "ok" /\ req[r].body = "question")
            /\ (connector = "None" /\ req[r].hstate # "waiting") =>
                 /\ req[r].hstate = "answered"
                 /\ req[r].resp.kind = "error"
                 /\ req[r].resp.status = 500
                 /\ req[r].askCalls = 0
            /\ (connector = "ok" /\ req[r].body \in {"no_question", "empty_question"}) =>
                 /\ req[r].hstate = "answered"
                 /\ req[r].resp.kind = "error"
                 /\ req[r].resp.error = "No question provided"
                 /\ req[r].resp.status = 400
                 /\ req[r].askCalls = 0)
    /\ [][connector = "None" => connector' = "None"]_vars

\* C12 witness: with an initialised connector, one request with an empty
\* question has been answered with 400 and another one has called ask
C12_Witness ==
    \E r, q \in Requests :
      /\ req[r].body = "empty_question" /\ req[r].resp.status = 400
      /\ req[q].askCalls = 1 /\ req[q].hstate = "answered"

====
